---- MODULE Spec2Model ----
(***************************************************************************)
(* Model of lm_eval/tasks/xquad.py: the two XQuAD task adapters xquad_en   *)
(* and xquad_ar, the module-level aggregation helpers, and the evaluation  *)
(* driver that calls them (construct requests, score a record, accumulate  *)
(* the scorable tuples per metric name, aggregate).                        *)
(*                                                                         *)
(* Python values that reach the adapter from outside (the results of the   *)
(* LM requests) are tagged records, so that the model can tell a str from  *)
(* a tuple from a float the way the interpreter does.  Floats are integers *)
(* in millionths (micro-units): -5.0 is -5000000.                          *)
(***************************************************************************)
EXTENDS Integers, Sequences, FiniteSets, TLC

\* ------------------------------------------------------------ bounds

\* Largest number of scored records the driver accumulates per metric name.
MaxBatch == 2

\* ------------------------------------------------------------ Python values

Str(s) == [t |-> "str", s |-> s]
Float(m) == [t |-> "float", micro |-> m]
Bool(b) == [t |-> "bool", b |-> b]
Tuple(items) == [t |-> "tuple", items |-> items]
None == [t |-> "NoneType"]

Return(v) == [kind |-> "return", value |-> v]
Raise(e) == [kind |-> "raise", exc |-> e]

\* One-character strings a two-character str input is made of.
Alphabet == {"a", "b"}

\* The items a Python value yields when it is iterated (tuples yield their
\* elements, a str yields its characters); only asked of iterable values.
PyLen(x) == IF x.t = "tuple" THEN Len(x.items) ELSE Len(x.s)

PyItems(x) ==
    IF x.t = "tuple" THEN x.items
    ELSE LET p == CHOOSE q \in Alphabet \X Alphabet : q[1] \o q[2] = x.s
         IN  <<Str(p[1]), Str(p[2])>>

\* Target-list assignment `a, b = x`: TypeError on a non-iterable, ValueError
\* unless x yields exactly two items, otherwise the two items.
Unpack2(x) ==
    IF x.t \notin {"tuple", "str"} THEN Raise("TypeError")
    ELSE IF PyLen(x) # 2 THEN Raise("ValueError")
    ELSE Return(PyItems(x))

\* math.exp on the floats of the model, in millionths, rounded to nearest.
ExpTable ==
    (-5000000 :> 6738) @@ (-1000000 :> 367879) @@ (-10000 :> 990050)
    @@ (0 :> 1000000) @@ (1000000 :> 2718282)

\* Variant of exp that forgets the exponential (the log probability passed on).
exp_identity(x) ==
    IF x.t = "float" THEN Return(Float(x.micro))
    ELSE IF x.t = "bool" THEN Return(Float(IF x.b THEN 1000000 ELSE 0))
    ELSE Raise("TypeError")

\* math.exp(x): a bool is the real number 1 or 0; a value that is no real
\* number is a TypeError.
exp(x) ==
    IF x.t = "float" THEN Return(Float(ExpTable[x.micro]))
    ELSE IF x.t = "bool" THEN Return(Float(ExpTable[IF x.b THEN 1000000 ELSE 0]))
    ELSE Raise("TypeError")

\* ------------------------------------------------------------ inputs

\* Records of the validation split, in the order the driver scores them
\* (id, context, question, answers); every second one is unanswerable.
Docs ==
    [i \in 1..MaxBatch |->
        [id |-> ToString(i),
         context |-> "Paris is the capital of France.",
         question |-> IF i % 2 = 1 THEN "What is the capital of France?"
                      ELSE "What is the capital of Atlantis?",
         answers |-> IF i % 2 = 1
                     THEN [text |-> <<"Paris">>, answer_start |-> <<0>>]
                     ELSE [text |-> <<>>, answer_start |-> <<>>]]]

\* Prompt contexts prepared by the few-shot assembler.
Contexts == {"What is the capital of France?", "Example. What is the capital of France?"}

\* run_args of construct_requests.
RunArgs == {[num_fewshot |-> n] : n \in {0, 1}}

\* Results the LM backend returns for the two requests, in construction order.
WellFormedResults ==
    { Tuple(<<Str("Paris"), Tuple(<<Float(-5000000), Bool(FALSE)>>)>>),
      Tuple(<<Str("Paris"), Tuple(<<Float(-5000000), Bool(TRUE)>>)>>),
      Tuple(<<Str(""), Tuple(<<Float(-10000), Bool(TRUE)>>)>>),
      Tuple(<<Str("Paris"), Tuple(<<Float(0), Bool(TRUE)>>)>>) }

\* Results that break the (generated_text, (log_probability, is_greedy)) shape.
MalformedResults ==
    { None,
      Str("ab"),
      Tuple(<<Str("Paris")>>),
      Tuple(<<Str("Paris"), Tuple(<<Float(-10000), Bool(TRUE)>>), Str("")>>),
      Tuple(<<Str("Paris"), Float(-10000)>>),
      Tuple(<<Str("Paris"), Str("ab")>>),
      Tuple(<<Str("Paris"), Tuple(<<Float(-10000)>>)>>),
      Tuple(<<Tuple(<<Float(-10000), Bool(TRUE)>>), Str("Paris")>>),
      Tuple(<<Str("Paris"), Tuple(<<Bool(TRUE), Float(-10000)>>)>>),
      Tuple(<<Float(-10000), Tuple(<<Float(-5000000), Bool(FALSE)>>)>>) }

Results == WellFormedResults \cup MalformedResults

\* The adapter instances: the class and the configuration fixed at construction.
Tasks ==
    { [name |-> n, save_examples |-> s, stopping_criteria |-> "\n",
       max_generation_length |-> None] :
        n \in {"xquad_en", "xquad_ar"}, s \in BOOLEAN }

\* ------------------------------------------------------------ request factory

\* rf.greedy_until(ctx, request_args) and rf.loglikelihood(ctx, continuation):
\* a request is its type and its arguments.
greedy_until(ctx, request_args) ==
    [request_type |-> "greedy_until", args |-> <<Str(ctx), request_args>>]

loglikelihood(ctx, continuation) ==
    [request_type |-> "loglikelihood", args |-> <<Str(ctx), Str(continuation)>>]

\* Adapter-level configuration read by construct_requests.
stopping_criteria(self) == self.stopping_criteria

max_generation_length(self) == self.max_generation_length

\* ------------------------------------------------------------ xquad_en

\* Variant of construct_requests returning the two requests in the other order.
xquad_en_construct_requests_swapped(self, doc, ctx, args) ==
    LET request_args ==
            [stopping_criteria |-> stopping_criteria(self),
             max_generation_length |-> max_generation_length(self),
             num_fewshot |-> args.num_fewshot]
        cont_request == greedy_until(ctx, request_args)
        is_unanswerable == loglikelihood(ctx, " " \o "unanswerable")
    IN  <<is_unanswerable, cont_request>>

xquad_en_construct_requests(self, doc, ctx, args) ==
    LET request_args ==
            [stopping_criteria |-> stopping_criteria(self),
             max_generation_length |-> max_generation_length(self),
             num_fewshot |-> args.num_fewshot]
        cont_request == greedy_until(ctx, request_args)
        is_unanswerable == loglikelihood(ctx, " " \o "unanswerable")
    IN  <<cont_request, is_unanswerable>>

\* What a call of process_results leaves: how it ended (the returned pair
\* (metrics map, example), or the exception raised) and the local names bound
\* by then, each with its value.  The targets of `pred, (logprob_unanswerable,
\* _) = results` are bound left to right: pred is bound once the outer
\* unpacking succeeds, also when the inner one then raises.
Frame(outcome, locals) == [outcome |-> outcome, locals |-> locals]

NoLocals == [n \in {} |-> None]

\* Variant of the metrics map with one payload in the other order.
xquad_en_metrics_mixed(predictions, references) ==
    [exact |-> <<predictions, references>>,
     f1 |-> <<predictions, references>>,
     HasAns_exact |-> <<predictions, references>>,
     HasAns_f1 |-> <<predictions, references>>,
     NoAns_exact |-> <<predictions, references>>,
     NoAns_f1 |-> <<predictions, references>>,
     best_exact |-> <<predictions, references>>,
     best_f1 |-> <<references, predictions>>]

\* The metrics map process_results returns: metric name -> scorable tuple.
xquad_en_metrics(predictions, references) ==
    [exact |-> <<predictions, references>>,
     f1 |-> <<predictions, references>>,
     HasAns_exact |-> <<predictions, references>>,
     HasAns_f1 |-> <<predictions, references>>,
     NoAns_exact |-> <<predictions, references>>,
     NoAns_f1 |-> <<predictions, references>>,
     best_exact |-> <<predictions, references>>,
     best_f1 |-> <<predictions, references>>]

xquad_en_process_results(self, doc, results) ==
    LET outer == Unpack2(results)
    IN  IF outer.kind = "raise" THEN Frame(outer, NoLocals) ELSE
        LET pred == outer.value[1]
            inner == Unpack2(outer.value[2])
        IN  IF inner.kind = "raise" THEN Frame(inner, [pred |-> pred]) ELSE
            LET logprob_unanswerable == inner.value[1]
                unpacked == [pred |-> pred,
                             logprob_unanswerable |-> logprob_unanswerable]
                            @@ ("_" :> inner.value[2])
                e == exp(logprob_unanswerable)
            IN  IF e.kind = "raise" THEN Frame(e, unpacked) ELSE
                LET no_answer_probability == e.value
                    predictions ==
                        [id |-> doc.id,
                         prediction_text |-> pred,
                         no_answer_probability |-> no_answer_probability]
                    references == [id |-> doc.id, answers |-> doc.answers]
                    built == unpacked @@
                             [no_answer_probability |-> no_answer_probability,
                              predictions |-> predictions,
                              references |-> references]
                    locals ==
                        IF self.save_examples
                        THEN built @@
                             [example |-> [pred |-> pred, target |-> doc.answers]]
                        ELSE built
                IN  IF "example" \notin DOMAIN locals
                    THEN Frame(Raise("UnboundLocalError"), locals)
                    ELSE Frame(Return(<<xquad_en_metrics(predictions, references),
                                        locals.example>>), locals)

\* Variant of aggregation() that lacks the best_f1 aggregator.
xquad_en_aggregation_missing(self) ==
    [exact |-> "exact",
     f1 |-> "f1",
     HasAns_exact |-> "HasAns_exact",
     HasAns_f1 |-> "HasAns_f1",
     NoAns_exact |-> "NoAns_exact",
     NoAns_f1 |-> "NoAns_f1",
     best_exact |-> "best_exact"]

\* aggregation(): metric name -> the key partial(_squad_agg, key) binds.
xquad_en_aggregation(self) ==
    [exact |-> "exact",
     f1 |-> "f1",
     HasAns_exact |-> "HasAns_exact",
     HasAns_f1 |-> "HasAns_f1",
     NoAns_exact |-> "NoAns_exact",
     NoAns_f1 |-> "NoAns_f1",
     best_exact |-> "best_exact",
     best_f1 |-> "best_f1"]

xquad_en_higher_is_better(self) ==
    [exact |-> TRUE,
     f1 |-> TRUE,
     HasAns_exact |-> TRUE,
     HasAns_f1 |-> TRUE,
     NoAns_exact |-> TRUE,
     NoAns_f1 |-> TRUE,
     best_exact |-> TRUE,
     best_f1 |-> TRUE]

\* ------------------------------------------------------------ xquad_ar

xquad_ar_construct_requests(self, doc, ctx, args) ==
    LET request_args ==
            [stopping_criteria |-> stopping_criteria(self),
             max_generation_length |-> max_generation_length(self),
             num_fewshot |-> args.num_fewshot]
        cont_request == greedy_until(ctx, request_args)
        is_unanswerable == loglikelihood(ctx, " " \o "unanswerable")
    IN  <<cont_request, is_unanswerable>>

\* The metrics map process_results returns: metric name -> scorable tuple.
xquad_ar_metrics(predictions, references) ==
    [exact |-> <<predictions, references>>,
     f1 |-> <<predictions, references>>,
     HasAns_exact |-> <<predictions, references>>,
     HasAns_f1 |-> <<predictions, references>>,
     best_exact_thresh |-> <<predictions, references>>,
     best_f1_thresh |-> <<predictions, references>>,
     best_exact |-> <<predictions, references>>,
     best_f1 |-> <<predictions, references>>]

xquad_ar_process_results(self, doc, results) ==
    LET outer == Unpack2(results)
    IN  IF outer.kind = "raise" THEN Frame(outer, NoLocals) ELSE
        LET pred == outer.value[1]
            inner == Unpack2(outer.value[2])
        IN  IF inner.kind = "raise" THEN Frame(inner, [pred |-> pred]) ELSE
            LET logprob_unanswerable == inner.value[1]
                unpacked == [pred |-> pred,
                             logprob_unanswerable |-> logprob_unanswerable]
                            @@ ("_" :> inner.value[2])
                e == exp(logprob_unanswerable)
            IN  IF e.kind = "raise" THEN Frame(e, unpacked) ELSE
                LET no_answer_probability == e.value
                    predictions ==
                        [id |-> doc.id,
                         prediction_text |-> pred,
                         no_answer_probability |-> no_answer_probability]
                    references == [id |-> doc.id, answers |-> doc.answers]
                    built == unpacked @@
                             [no_answer_probability |-> no_answer_probability,
                              predictions |-> predictions,
                              references |-> references]
                    locals ==
                        IF self.save_examples
                        THEN built @@
                             [example |-> [pred |-> pred, target |-> doc.answers]]
                        ELSE built
                IN  IF "example" \notin DOMAIN locals
                    THEN Frame(Raise("UnboundLocalError"), locals)
                    ELSE Frame(Return(<<xquad_ar_metrics(predictions, references),
                                        locals.example>>), locals)

\* Variant of aggregation() that keeps the NoAns names next to the threshold ones.
xquad_ar_aggregation_superset(self) ==
    [exact |-> "exact",
     f1 |-> "f1",
     HasAns_exact |-> "HasAns_exact",
     HasAns_f1 |-> "HasAns_f1",
     NoAns_exact |-> "NoAns_exact",
     NoAns_f1 |-> "NoAns_f1",
     best_exact_thresh |-> "best_exact_thresh",
     best_f1_thresh |-> "best_f1_thresh",
     best_exact |-> "best_exact",
     best_f1 |-> "best_f1"]

\* aggregation(): metric name -> the key partial(_squad_agg, key) binds.
xquad_ar_aggregation(self) ==
    [exact |-> "exact",
     f1 |-> "f1",
     HasAns_exact |-> "HasAns_exact",
     HasAns_f1 |-> "HasAns_f1",
     best_exact_thresh |-> "best_exact_thresh",
     best_f1_thresh |-> "best_f1_thresh",
     best_exact |-> "best_exact",
     best_f1 |-> "best_f1"]

\* Variant of higher_is_better() still listing the names of xquad_en.
xquad_ar_higher_is_better_stale(self) ==
    [exact |-> TRUE,
     f1 |-> TRUE,
     HasAns_exact |-> TRUE,
     HasAns_f1 |-> TRUE,
     NoAns_exact |-> TRUE,
     NoAns_f1 |-> TRUE,
     best_exact |-> TRUE,
     best_f1 |-> TRUE]

xquad_ar_higher_is_better(self) ==
    [exact |-> TRUE,
     f1 |-> TRUE,
     HasAns_exact |-> TRUE,
     HasAns_f1 |-> TRUE,
     best_exact_thresh |-> TRUE,
     best_f1_thresh |-> TRUE,
     best_exact |-> TRUE,
     best_f1 |-> TRUE]

\* Method lookup on the adapter instance.
construct_requests(self, doc, ctx, args) ==
    IF self.name = "xquad_en" THEN xquad_en_construct_requests(self, doc, ctx, args)
    ELSE xquad_ar_construct_requests(self, doc, ctx, args)

process_results(self, doc, results) ==
    IF self.name = "xquad_en" THEN xquad_en_process_results(self, doc, results)
    ELSE xquad_ar_process_results(self, doc, results)

aggregation(self) ==
    IF self.name = "xquad_en" THEN xquad_en_aggregation(self)
    ELSE xquad_ar_aggregation(self)

higher_is_better(self) ==
    IF self.name = "xquad_en" THEN xquad_en_higher_is_better(self)
    ELSE xquad_ar_higher_is_better(self)

\* ------------------------------------------------------------ scoring service

\* Keys the squad_v2 metric always reports, and the ones it may report.
MinimumKeys ==
    {"exact", "f1", "HasAns_exact", "HasAns_f1", "NoAns_exact", "NoAns_f1",
     "best_exact", "best_f1"}

OptionalKeys == {"best_exact_thresh", "best_f1_thresh"}

\* Two score tables (in percent), every key with a value of its own.
ScoreTables ==
    { [exact |-> 50, f1 |-> 60, HasAns_exact |-> 51, HasAns_f1 |-> 61,
       NoAns_exact |-> 52, NoAns_f1 |-> 62, best_exact |-> 53, best_f1 |-> 63,
       best_exact_thresh |-> 4, best_f1_thresh |-> 5],
      [exact |-> 100, f1 |-> 99, HasAns_exact |-> 98, HasAns_f1 |-> 97,
       NoAns_exact |-> 96, NoAns_f1 |-> 95, best_exact |-> 94, best_f1 |-> 93,
       best_exact_thresh |-> 0, best_f1_thresh |-> 1] }

\* The dictionaries squad_metric.compute may return.
ServiceDicts ==
    { [k \in MinimumKeys \cup opt |-> table[k]] :
        table \in ScoreTables, opt \in SUBSET OptionalKeys }

\* _squad_metric: one compute call on the service, which answers `service`;
\* the call made is recorded next to the value returned.
_squad_metric(predictions, references, service) ==
    [calls |-> <<[predictions |-> predictions, references |-> references]>>,
     value |-> service]

\* Variant of Unzip that yields the predictions in reverse order.
Unzip_reversed(items) ==
    <<[i \in 1..Len(items) |-> items[Len(items) + 1 - i][1]],
      [i \in 1..Len(items) |-> items[i][2]]>>

\* zip(*items): the tuple of first components and the tuple of second ones.
Unzip(items) ==
    <<[i \in 1..Len(items) |-> items[i][1]], [i \in 1..Len(items) |-> items[i][2]]>>

\* _squad_agg(key, items): ValueError when zip(*items) yields nothing to
\* unpack, KeyError when the service's dictionary lacks key.
_squad_agg(key, items, service) ==
    IF Len(items) = 0 THEN [outcome |-> Raise("ValueError"), calls |-> <<>>] ELSE
    LET predictions == Unzip(items)[1]
        references == Unzip(items)[2]
        m == _squad_metric(predictions, references, service)
    IN  IF key \in DOMAIN m.value
        THEN [outcome |-> Return(m.value[key]), calls |-> m.calls]
        ELSE [outcome |-> Raise("KeyError"), calls |-> m.calls]

\* ------------------------------------------------------------ driver

VARIABLES
    self,   \* the adapter instance under evaluation
    call,   \* the last call made on the adapter: operation, arguments, result
    acc     \* the metric accumulators: metric name -> sequence of scorable tuples

vars == <<self, call, acc>>

NoCall == [op |-> "none"]

\* Number of records accumulated so far (every accumulator has this length).
Scored == IF DOMAIN acc = {} THEN 0 ELSE Len(acc[CHOOSE k \in DOMAIN acc : TRUE])

\* Appends each metric's value to the accumulator of that name.
Accumulate(metrics) ==
    [k \in DOMAIN acc \cup DOMAIN metrics |->
        IF k \in DOMAIN metrics
        THEN (IF k \in DOMAIN acc THEN acc[k] ELSE <<>>) \o <<metrics[k]>>
        ELSE acc[k]]

Init ==
    /\ self \in Tasks
    /\ call = NoCall
    /\ acc = [k \in {} |-> <<>>]

\* The driver asks the adapter for the requests of one record.
ConstructRequests ==
    \E i \in 1..MaxBatch, ctx \in Contexts, args \in RunArgs :
        /\ call' = [op |-> "construct_requests", doc |-> Docs[i], ctx |-> ctx,
                    args |-> args,
                    ret |-> construct_requests(self, Docs[i], ctx, args)]
        /\ UNCHANGED <<self, acc>>

\* The driver scores the next record; process_results returns and the
\* driver appends the tuples to the accumulators.
ScoreRecord ==
    \E results \in Results :
        LET doc == Docs[Scored + 1]
            frame == process_results(self, doc, results)
        IN  /\ Scored < MaxBatch
            /\ frame.outcome.kind = "return"
            /\ call' = [op |-> "process_results", doc |-> doc,
                        results |-> results, frame |-> frame]
            /\ acc' = Accumulate(frame.outcome.value[1])
            /\ UNCHANGED self

\* The driver scores the next record and process_results raises: nothing
\* is accumulated.
ScoreRecordFails ==
    \E results \in Results :
        LET doc == Docs[Scored + 1]
            frame == process_results(self, doc, results)
        IN  /\ Scored < MaxBatch
            /\ frame.outcome.kind = "raise"
            /\ call' = [op |-> "process_results", doc |-> doc,
                        results |-> results, frame |-> frame]
            /\ UNCHANGED <<self, acc>>

\* The driver aggregates one accumulated metric: it looks the name up in
\* aggregation() and applies the aggregator to the whole accumulator.
Aggregate ==
    \E k \in DOMAIN acc, service \in ServiceDicts :
        /\ call' = [op |-> "aggregate", metric |-> k, items |-> acc[k],
                    service |-> service,
                    ret |-> IF k \in DOMAIN aggregation(self)
                            THEN _squad_agg(aggregation(self)[k], acc[k], service)
                            ELSE [outcome |-> Raise("KeyError"), calls |-> <<>>]]
        /\ UNCHANGED <<self, acc>>

Next == ConstructRequests \/ ScoreRecord \/ ScoreRecordFails \/ Aggregate

Spec == Init /\ [][Next]_vars

\* ------------------------------------------------------------ properties

\* results has the shape (generated_text, (log_probability, is_greedy)).
WellFormed(results) ==
    /\ results.t = "tuple"
    /\ Len(results.items) = 2
    /\ results.items[1].t = "str"
    /\ results.items[2].t = "tuple"
    /\ Len(results.items[2].items) = 2
    /\ results.items[2].items[1].t = "float"
    /\ results.items[2].items[2].t = "bool"

Scoring == call.op = "process_results"
Returned == Scoring /\ call.frame.outcome.kind = "return"
Aggregating == call.op = "aggregate"

CommonNames == {"exact", "f1", "HasAns_exact", "HasAns_f1", "best_exact", "best_f1"}
NoAnsNames == {"NoAns_exact", "NoAns_f1"}
ThreshNames == {"best_exact_thresh", "best_f1_thresh"}

\* C1: construct_requests returns exactly two requests, a greedy_until request
\* then a loglikelihood request, both on the prompt context it was given, and
\* the loglikelihood continuation is the literal " unanswerable" whatever the
\* record, for xquad_en and xquad_ar alike.
C1_TwoRequestsInOrder ==
    call.op = "construct_requests" =>
        /\ Len(call.ret) = 2
        /\ call.ret[1].request_type = "greedy_until"
        /\ call.ret[2].request_type = "loglikelihood"
        /\ call.ret[1].args[1] = Str(call.ctx)
        /\ call.ret[2].args[1] = Str(call.ctx)
        /\ call.ret[2].args[2] = Str(" unanswerable")

C1_Witness ==
    /\ call.op = "construct_requests"
    /\ self.name = "xquad_ar"
    /\ call.doc.answers.text = <<>>
    /\ call.args.num_fewshot = 1

\* C2: with save_examples False, process_results on a well-formed results
\* pair returns (a metrics map and a defined second value) instead of raising.
C2_ReturnsWhenLoggingDisabled ==
    (Scoring /\ ~self.save_examples /\ WellFormed(call.results)) =>
        call.frame.outcome.kind = "return"

\* C3: every key of the metrics map process_results returns carries the same
\* (Prediction, Reference) tuple.
C3_IdenticalPayloads ==
    Returned =>
        LET metrics == call.frame.outcome.value[1]
        IN  \A k1 \in DOMAIN metrics, k2 \in DOMAIN metrics :
                metrics[k1] = metrics[k2]

C3_Witness ==
    /\ Returned
    /\ self.name = "xquad_en"
    /\ Cardinality(DOMAIN call.frame.outcome.value[1]) = 8

\* C4: aggregation() and higher_is_better() of the adapter instance have the
\* same key set.
C4_SameKeySets ==
    DOMAIN aggregation(self) = DOMAIN higher_is_better(self)

C4_Witness ==
    /\ self.name = "xquad_ar"
    /\ Aggregating
    /\ call.metric = "best_f1_thresh"
    /\ call.metric \in DOMAIN higher_is_better(self)

\* C5: on a well-formed results pair process_results builds the Prediction
\* (the record's id, the generated text, exp of the log probability) and the
\* Reference (the record's id, the record's answers); is_greedy plays no part,
\* and a returned metrics map carries exactly this pair.
C5_PredictionAndReference ==
    (Scoring /\ WellFormed(call.results)) =>
        LET generated_text == call.results.items[1]
            log_probability == call.results.items[2].items[1]
            prediction ==
                [id |-> call.doc.id,
                 prediction_text |-> generated_text,
                 no_answer_probability |-> Float(ExpTable[log_probability.micro])]
            reference == [id |-> call.doc.id, answers |-> call.doc.answers]
        IN  /\ {"predictions", "references"} \subseteq DOMAIN call.frame.locals
            /\ call.frame.locals.predictions = prediction
            /\ call.frame.locals.references = reference
            /\ Returned =>
                 \A k \in DOMAIN call.frame.outcome.value[1] :
                     call.frame.outcome.value[1][k] = <<prediction, reference>>

C5_Witness ==
    /\ Returned
    /\ WellFormed(call.results)
    /\ call.results.items[2].items[1] = Float(-5000000)
    /\ call.results.items[2].items[2] = Bool(TRUE)
    /\ call.frame.locals.predictions.no_answer_probability = Float(6738)

\* C6: an aggregator applied to a non-empty accumulator calls the scoring
\* service exactly once, with the predictions and the references of all the
\* tuples in accumulation order, and returns the value the service's
\* dictionary holds under the aggregator's metric name.
C6_AggregatorCallsServiceOnce ==
    (Aggregating /\ Len(call.items) > 0) =>
        /\ Len(call.ret.calls) = 1
        /\ Len(call.ret.calls[1].predictions) = Len(call.items)
        /\ Len(call.ret.calls[1].references) = Len(call.items)
        /\ \A i \in 1..Len(call.items) :
              /\ call.ret.calls[1].predictions[i] = call.items[i][1]
              /\ call.ret.calls[1].references[i] = call.items[i][2]
        /\ call.metric \in DOMAIN call.service =>
              call.ret.outcome = Return(call.service[call.metric])
        /\ call.ret.outcome.kind = "return" =>
              /\ call.metric \in DOMAIN call.service
              /\ call.ret.outcome.value = call.service[call.metric]

C6_Witness ==
    /\ Aggregating
    /\ Len(call.items) = 2
    /\ call.items[1] # call.items[2]
    /\ call.metric = "HasAns_f1"
    /\ call.ret.outcome = Return(61)

\* C7: process_results raises whenever results is not of the shape
\* (generated_text, (log_probability, is_greedy)).
C7_MalformedResultsRaise ==
    (Scoring /\ ~WellFormed(call.results)) =>
        call.frame.outcome.kind = "raise"

\* C8 (as stated): every variant declares the eight base names, and xquad_ar
\* declares what xquad_en declares plus the two threshold-value names.
C8_ArExtendsEn ==
    /\ CommonNames \cup NoAnsNames \subseteq DOMAIN aggregation(self)
    /\ self.name = "xquad_ar" =>
          DOMAIN aggregation(self) =
              DOMAIN xquad_en_aggregation(self) \cup ThreshNames

\* C8 (amended): both variants declare exact, f1, HasAns_exact, HasAns_f1,
\* best_exact and best_f1; beyond these xquad_en declares NoAns_exact and
\* NoAns_f1 and nothing else, xquad_ar declares best_exact_thresh and
\* best_f1_thresh and nothing else.
C8_ArReplacesNoAnsByThresh ==
    /\ self.name = "xquad_en" =>
          DOMAIN aggregation(self) = CommonNames \cup NoAnsNames
    /\ self.name = "xquad_ar" =>
          DOMAIN aggregation(self) = CommonNames \cup ThreshNames
    /\ Returned =>
          DOMAIN call.frame.outcome.value[1] =
              CommonNames \cup
                  (IF self.name = "xquad_en" THEN NoAnsNames ELSE ThreshNames)

C8_Witness ==
    /\ self.name = "xquad_ar"
    /\ Returned
    /\ "best_exact_thresh" \in DOMAIN call.frame.outcome.value[1]
    /\ "NoAns_exact" \notin DOMAIN call.frame.outcome.value[1]

\* C9: the metrics map process_results returns has the keys of aggregation(),
\* so once records are accumulated the accumulators and the aggregators bear
\* the same names, and the driver never aggregates a name without aggregator.
C9_AccumulatorsMatchAggregators ==
    /\ Returned => DOMAIN call.frame.outcome.value[1] = DOMAIN aggregation(self)
    /\ Scored > 0 => DOMAIN acc = DOMAIN aggregation(self)
    /\ Aggregating => call.metric \in DOMAIN aggregation(self)

C9_Witness ==
    /\ Scored = 2
    /\ self.name = "xquad_en"
    /\ Aggregating
    /\ call.metric = "best_f1"

\* C10: every aggregator a variant declares returns a value on a non-empty
\* accumulator when the service's dictionary holds just the minimum key set.
C10_MinimumKeysSuffice ==
    (Aggregating /\ Len(call.items) > 0 /\ DOMAIN call.service = MinimumKeys) =>
        call.ret.outcome.kind = "return"

====
